---- MODULE Spec2Model ----
(***************************************************************************)
(* Model of the Modal component of src/src/modal/modal.js: the open/close  *)
(* state machine, its two deferred callbacks (the requestAnimationFrame    *)
(* callback of open() and the setTimeout callback of close()), the         *)
(* document key listener and the focus memento.                            *)
(*                                                                         *)
(* The host environment is modelled as far as the component uses it:       *)
(*   - the browser's timer table: pending setTimeout callbacks by handle;  *)
(*     all are scheduled with the same delay (500), so they fire in the    *)
(*     order they were scheduled;                                          *)
(*   - the browser's frame-callback table; a frame callback and a timeout  *)
(*     fire in either order (frames are suspended in a hidden tab while    *)
(*     timers keep running);                                               *)
(*   - the document's list of keyup listeners and document.activeElement;  *)
(*   - the references of the Root and Dialog elements (getRef) and the     *)
(*     element whose scroll open() resets;                                 *)
(*   - React: setState on an unmounted instance is ignored.                *)
(***************************************************************************)
EXTENDS Naturals, Sequences, FiniteSets

(* Bounds of the model: handles issued by setTimeout / requestAnimationFrame *)
MaxTimeouts == 3
MaxFrames == 3

(* No handle stored yet (the field is undefined); handles are 1, 2, ...    *)
NoHandle == 0

NoElement == "null"
NoSource == "undefined"

(* CLOSE_SOURCE *)
CloseSources == {"escape", "backdrop", "closeButton"}

(* Elements of the host document that can hold focus.  "legacy" is an      *)
(* element without a focus method (modal.js:165), "dialog" is the Dialog   *)
(* slot's element, "body" is what activeElement is when nothing else is.   *)
PageElements == {"body", "trigger", "legacy"}
Elements == PageElements \cup {"dialog"}

(* The elements of the Root and Dialog slots, which carry a $ref           *)
PortalElements == {"root", "dialog"}

Keys == {"Escape", "Enter"}

VARIABLES
    isOpen,            \* props.isOpen
    closeable,         \* props.closeable
    autofocus,         \* props.autofocus
    hasOnClose,        \* props.onClose is supplied
    overrideRef,       \* props.overrides.Dialog supplies its own $ref
    mounted,           \* state.mounted
    isVisible,         \* state.isVisible
    animateOutTimer,   \* this.animateOutTimer: last handle returned by setTimeout
    animateStartTimer, \* this.animateStartTimer: last handle returned by requestAnimationFrame
    lastFocus,         \* this.lastFocus
    lifecycle,         \* "constructed", "attached" (after componentDidMount), "unmounted"
    pendingTimeouts,   \* handles of the setTimeout callbacks not yet fired or cleared
    pendingFrames,     \* handles of the frame callbacks not yet fired or cancelled
    timeoutIds,        \* number of handles setTimeout has issued
    frameIds,          \* number of handles requestAnimationFrame has issued
    listeners,         \* registrations of onDocumentKeyPress for keyup on the document
    activeElement,     \* document.activeElement
    onCloseCalls,      \* the arguments of the calls made to props.onClose, in order
    scrollReset,       \* the element whose scrollTop open() last set to 0
    staleSetState      \* a callback has called setState on the unmounted instance

vars == <<isOpen, closeable, autofocus, hasOnClose, overrideRef, mounted,
          isVisible, scrollReset,
          animateOutTimer, animateStartTimer, lastFocus, lifecycle,
          pendingTimeouts, pendingFrames, timeoutIds, frameIds, listeners,
          activeElement, onCloseCalls, staleSetState>>

props == <<isOpen, closeable, autofocus, hasOnClose, overrideRef>>
openFields == <<animateStartTimer, pendingFrames, frameIds, scrollReset>>
closeFields == <<animateOutTimer, timeoutIds, onCloseCalls>>

(* __BROWSER__: lifecycle methods only run in the browser build *)
BROWSER == TRUE

----------------------------------------------------------------------------
(* getMountNode: props.mountNode, or document.body when none is given      *)
getMountNode == "body"

(* render(): non-null iff mounted, isOpen or isVisible, and a mount node   *)
render(m, o, v) == m /\ (o \/ v) /\ getMountNode # NoElement

Rendered == render(mounted, isOpen, isVisible)

(* The portal subtree is in the document *)
InDocument == lifecycle = "attached" /\ Rendered

(* The browser moves focus to body when the focused element leaves the     *)
(* document (the portal subtree is removed when render() returns null)     *)
afterCommit(active, rendered) ==
    IF active \in PortalElements /\ ~rendered THEN "body" ELSE active

(* getRef(component): the reference of the Dialog override when it gives   *)
(* one, whatever the component asked for; else this._refs[component]       *)
getRef(component) ==
    IF overrideRef THEN "overrides.Dialog.$ref" ELSE component

(* ref.current, for a reference returned by getRef: null while nothing is  *)
(* rendered; the slot's element for an internal reference; for the         *)
(* override's reference, which renderModal passes to the Root and to the   *)
(* Dialog element, whichever of the two was attached to it last            *)
refCurrent(ref, rendered) ==
    IF ~rendered THEN {NoElement}
    ELSE IF ref = "Root" THEN {"root"}
    ELSE IF ref = "Dialog" THEN {"dialog"}
    ELSE PortalElements

(* addDomEvents: addEventListener ignores a listener already registered    *)
(* (onDocumentKeyPress is one function per instance)                       *)
addDomEvents(n) == IF BROWSER THEN (IF n = 0 THEN 1 ELSE n) ELSE n

(* Variant of removeDomEvents that leaves the listener registered *)
removeDomEvents_KeepsListener(n) == n

(* removeDomEvents *)
removeDomEvents(n) == IF BROWSER THEN (IF n > 0 THEN n - 1 ELSE 0) ELSE n

(* clearTimers: clears the timeout and the frame named by the stored handles *)
clearTimeouts(handle, pending) ==
    IF handle # NoHandle THEN pending \ {handle} ELSE pending

clearFrames(handle, pending) ==
    IF handle # NoHandle THEN pending \ {handle} ELSE pending

(* captureLastFocus *)
captureLastFocus(active) == active

(* autoFocus: the element focused after it ran *)
autoFocus(active, dialog) ==
    IF ~autofocus THEN active
    ELSE IF dialog = NoElement THEN active
    ELSE dialog

(* this.lastFocus.focus exists; calling it moves focus to the element *)
hasFocusMethod(e) == e # "legacy"

(* Variant of restoreLastFocus that focuses the memento but keeps holding it *)
restoreLastFocus_KeepsMemento(memento, active) ==
    IF memento # NoElement
    THEN [active |-> IF hasFocusMethod(memento) THEN memento ELSE active,
          lastFocus |-> memento]
    ELSE [active |-> active, lastFocus |-> memento]

(* restoreLastFocus: the focused element and the memento after it ran *)
restoreLastFocus(memento, active) ==
    IF memento # NoElement
    THEN [active |-> IF hasFocusMethod(memento) THEN memento ELSE active,
          lastFocus |-> NoElement]
    ELSE [active |-> active, lastFocus |-> memento]

(* Variant of the guard in close() that does not test the source *)
callsOnClose_IgnoresSource(source) == hasOnClose

(* close(): props.onClose is called iff it is supplied and a source is given *)
callsOnClose(source) == hasOnClose /\ source # NoSource

----------------------------------------------------------------------------
(* open(), run with `active` focused and the subtree rendered or not       *)
open(active, rendered) ==
    /\ frameIds < MaxFrames
    /\ lastFocus' = captureLastFocus(active)
    /\ \E dialog \in refCurrent(getRef("Dialog"), rendered),
          rootRef \in refCurrent(getRef("Root"), rendered) :
          /\ getRef("Dialog") = getRef("Root") => dialog = rootRef
          /\ activeElement' = autoFocus(active, dialog)
          /\ scrollReset' = IF rootRef # NoElement THEN rootRef
                                                   ELSE scrollReset
    /\ pendingTimeouts' = clearTimeouts(animateOutTimer, pendingTimeouts)
    /\ listeners' = addDomEvents(listeners)
    /\ frameIds' = frameIds + 1
    /\ animateStartTimer' = frameIds + 1
    /\ pendingFrames' =
           clearFrames(animateStartTimer, pendingFrames) \cup {frameIds + 1}
    /\ UNCHANGED closeFields

(* close(source), run with `active` focused *)
close(source, active) ==
    /\ timeoutIds < MaxTimeouts
    /\ onCloseCalls' = IF callsOnClose(source)
                       THEN Append(onCloseCalls, source)
                       ELSE onCloseCalls
    /\ listeners' = removeDomEvents(listeners)
    /\ timeoutIds' = timeoutIds + 1
    /\ animateOutTimer' = timeoutIds + 1
    /\ pendingTimeouts' = pendingTimeouts \cup {timeoutIds + 1}
    /\ lastFocus' = restoreLastFocus(lastFocus, active).lastFocus
    /\ activeElement' = restoreLastFocus(lastFocus, active).active
    /\ UNCHANGED openFields

(* A handler that returns early *)
noop ==
    UNCHANGED <<closeFields, openFields, pendingTimeouts, listeners,
                lastFocus, activeElement>>

(* Variant of onDocumentKeyPress that closes without passing its source *)
onDocumentKeyPress_NoSource(key, defaultPrevented) ==
    IF key # "Escape" THEN noop
    ELSE IF defaultPrevented THEN noop
    ELSE IF ~closeable THEN noop
    ELSE close(NoSource, activeElement)

(* Variant of onDocumentKeyPress without the defaultPrevented test *)
onDocumentKeyPress_IgnoresDefaultPrevented(key, defaultPrevented) ==
    IF key # "Escape" THEN noop
    ELSE IF ~closeable THEN noop
    ELSE close("escape", activeElement)

(* onDocumentKeyPress(event) *)
onDocumentKeyPress(key, defaultPrevented) ==
    IF key # "Escape" THEN noop
    ELSE IF defaultPrevented THEN noop
    ELSE IF ~closeable THEN noop
    ELSE close("escape", activeElement)

(* Variant of onBackdropClick without the closeable test *)
onBackdropClick_NoGuard == close("backdrop", activeElement)

(* onBackdropClick *)
onBackdropClick ==
    IF ~closeable THEN noop
    ELSE close("backdrop", activeElement)

(* Variant of onCloseClick that goes through the backdrop's handler *)
onCloseClick_ViaBackdrop == onBackdropClick

(* onCloseClick *)
onCloseClick == close("closeButton", activeElement)

----------------------------------------------------------------------------
Init ==
    /\ isOpen \in BOOLEAN
    /\ closeable \in BOOLEAN
    /\ autofocus \in BOOLEAN
    /\ hasOnClose \in BOOLEAN
    /\ overrideRef \in BOOLEAN
    /\ scrollReset = NoElement
    /\ mounted = FALSE
    /\ isVisible = FALSE
    /\ animateOutTimer = NoHandle
    /\ animateStartTimer = NoHandle
    /\ lastFocus = NoElement
    /\ lifecycle = "constructed"
    /\ pendingTimeouts = {}
    /\ pendingFrames = {}
    /\ timeoutIds = 0
    /\ frameIds = 0
    /\ listeners = 0
    /\ activeElement \in PageElements
    /\ onCloseCalls = <<>>
    /\ staleSetState = FALSE

(* Variant of componentDidMount that opens the modal without first setting  *)
(* state.mounted                                                            *)
ComponentDidMount_OpenBeforeMounted ==
    /\ lifecycle = "constructed"
    /\ lifecycle' = "attached"
    /\ IF isOpen
       THEN open(activeElement, FALSE)
       ELSE noop
    /\ UNCHANGED <<props, mounted, isVisible, staleSetState>>

(* Variant of componentDidUpdate that reacts to a change of isOpen only    *)
componentDidUpdate_OnlyOnPropChange(prevIsOpen, prevMounted, active) ==
    IF isOpen' # prevIsOpen
    THEN IF isOpen'
         THEN open(active, render(mounted', isOpen', isVisible'))
         ELSE close(NoSource,
                    afterCommit(active, render(mounted', isOpen', isVisible')))
    ELSE noop

(* componentDidUpdate(prevProps, prevState), run after an update that left *)
(* `active` focused: open() or close() when isOpen changed, open() when    *)
(* the component just mounted with isOpen true                             *)
componentDidUpdate(prevIsOpen, prevMounted, active) ==
    IF isOpen' # prevIsOpen \/ (isOpen' /\ mounted' /\ ~prevMounted)
    THEN IF isOpen'
         THEN open(active, render(mounted', isOpen', isVisible'))
         ELSE close(NoSource,
                    afterCommit(active, render(mounted', isOpen', isVisible')))
    ELSE noop

(* componentDidMount: setState({mounted: true}), and the componentDidUpdate *)
(* of that update, which opens the modal when isOpen is already true        *)
ComponentDidMount ==
    /\ lifecycle = "constructed"
    /\ lifecycle' = "attached"
    /\ mounted' = TRUE
    /\ UNCHANGED <<props, isVisible, staleSetState>>
    /\ componentDidUpdate(isOpen, mounted, activeElement)

(* The host renders the component with another isOpen: componentDidUpdate  *)
(* sees isOpen # prevProps.isOpen and runs open() or close()               *)
HostSetIsOpen(b) ==
    /\ lifecycle = "attached"
    /\ b # isOpen
    /\ isOpen' = b
    /\ UNCHANGED <<closeable, autofocus, hasOnClose, overrideRef, mounted,
                   isVisible, lifecycle, staleSetState>>
    /\ componentDidUpdate(isOpen, mounted, activeElement)

(* The host renders the component with another closeable: componentDidUpdate *)
(* sees the same isOpen and the same state.mounted, and does nothing         *)
HostSetCloseable(b) ==
    /\ lifecycle = "attached"
    /\ b # closeable
    /\ closeable' = b
    /\ UNCHANGED <<isOpen, autofocus, hasOnClose, overrideRef, mounted,
                   isVisible, lifecycle, staleSetState>>
    /\ componentDidUpdate(isOpen, mounted, activeElement)

(* A keyup event reaches the document: the registered listener runs *)
KeyUp(key, defaultPrevented) ==
    /\ lifecycle = "attached"
    /\ listeners > 0
    /\ onDocumentKeyPress(key, defaultPrevented)
    /\ UNCHANGED <<props, mounted, isVisible, lifecycle, staleSetState>>

(* A click on the Backdrop element, which exists while the subtree is rendered *)
BackdropClick ==
    /\ InDocument
    /\ onBackdropClick
    /\ UNCHANGED <<props, mounted, isVisible, lifecycle, staleSetState>>

(* A click on the Close element, rendered only when closeable *)
CloseClick ==
    /\ InDocument
    /\ closeable
    /\ onCloseClick
    /\ UNCHANGED <<props, mounted, isVisible, lifecycle, staleSetState>>

(* The frame callback of open() runs: setState({isVisible: true}) *)
FrameCallback ==
    /\ \E f \in pendingFrames :
          pendingFrames' = pendingFrames \ {f}
    /\ IF lifecycle = "unmounted"
       THEN staleSetState' = TRUE /\ UNCHANGED isVisible
       ELSE isVisible' = TRUE /\ UNCHANGED staleSetState
    /\ UNCHANGED <<props, mounted, lifecycle, closeFields, animateStartTimer,
                   frameIds, scrollReset, pendingTimeouts, listeners,
                   lastFocus, activeElement>>

(* The oldest pending timeout fires: animateOutComplete, setState({isVisible: false}) *)
AnimateOutComplete ==
    /\ \E t \in pendingTimeouts :
          /\ \A u \in pendingTimeouts : t <= u
          /\ pendingTimeouts' = pendingTimeouts \ {t}
    /\ IF lifecycle = "unmounted"
       THEN /\ staleSetState' = TRUE
            /\ UNCHANGED <<isVisible, activeElement>>
       ELSE /\ isVisible' = FALSE
            /\ activeElement' =
                   afterCommit(activeElement, render(mounted, isOpen, FALSE))
            /\ UNCHANGED staleSetState
    /\ UNCHANGED <<props, mounted, lifecycle, closeFields, openFields,
                   listeners, lastFocus>>

(* componentWillUnmount: removeDomEvents(), clearTimers(); the subtree leaves *)
(* the document                                                               *)
ComponentWillUnmount ==
    /\ lifecycle = "attached"
    /\ lifecycle' = "unmounted"
    /\ listeners' = removeDomEvents(listeners)
    /\ pendingTimeouts' = clearTimeouts(animateOutTimer, pendingTimeouts)
    /\ pendingFrames' = clearFrames(animateStartTimer, pendingFrames)
    /\ activeElement' = afterCommit(activeElement, FALSE)
    /\ UNCHANGED <<props, mounted, isVisible, closeFields, animateStartTimer,
                   frameIds, scrollReset, lastFocus, staleSetState>>

(* The user moves focus to another element of the document *)
UserFocus(e) ==
    /\ lifecycle = "attached"
    /\ e # activeElement
    /\ e = "dialog" => InDocument
    /\ activeElement' = e
    /\ UNCHANGED <<props, mounted, isVisible, lifecycle, closeFields,
                   openFields, pendingTimeouts, listeners, lastFocus,
                   staleSetState>>

Next ==
    \/ ComponentDidMount
    \/ \E b \in BOOLEAN : HostSetIsOpen(b)
    \/ \E b \in BOOLEAN : HostSetCloseable(b)
    \/ \E k \in Keys, d \in BOOLEAN : KeyUp(k, d)
    \/ BackdropClick
    \/ CloseClick
    \/ FrameCallback
    \/ AnimateOutComplete
    \/ ComponentWillUnmount
    \/ \E e \in Elements : UserFocus(e)

Spec == Init /\ [][Next]_vars

----------------------------------------------------------------------------
(* C1: once open() has run and no close() has run since (the key listener  *)
(* is attached exactly then), no hide timer scheduled by an earlier close  *)
(* is still pending, so no hide timer can flip isVisible to false while    *)
(* the modal stays open.                                                   *)
C1_NoHideTimerSurvivesOpen ==
    (lifecycle = "attached" /\ listeners > 0) => pendingTimeouts = {}

(* C2: after componentWillUnmount no frame callback and no hide timer is   *)
(* pending, the key listener is removed, and no callback has called        *)
(* setState on the unmounted instance.                                     *)
C2_NothingPendingAfterUnmount ==
    lifecycle = "unmounted" =>
        /\ pendingTimeouts = {}
        /\ pendingFrames = {}
        /\ listeners = 0
        /\ ~staleSetState

(* C3: when the modal is closed and every pending callback has run, in     *)
(* whatever order, isVisible is false (a closed modal can only be visible  *)
(* with nothing pending if the frame callback of an open ran after the     *)
(* hide timer of the close that followed that open).                       *)
C3_NoDanglingVisible ==
    (lifecycle = "attached" /\ ~isOpen
        /\ pendingFrames = {} /\ pendingTimeouts = {}) => ~isVisible

(* C4: isVisible is never true while mounted is false, and mounted never   *)
(* reverts from true to false, whatever the sequence of mount, isOpen      *)
(* toggles, dismissals and callback firings.                               *)
C4_VisibleOnlyWhenMounted ==
    /\ [](isVisible => mounted)
    /\ [][mounted => mounted']_vars

(* A modal that became visible, was closed by the host and then unmounted  *)
C4_Witness ==
    mounted /\ isVisible /\ ~isOpen /\ lifecycle = "unmounted"

(* C5: a close driven by the host changing isOpen from true to false makes *)
(* no call to onClose.                                                     *)
C5_HostCloseNeverCallsOnClose ==
    [][HostSetIsOpen(FALSE) => onCloseCalls' = onCloseCalls]_vars

(* The host closed a modal that has an onClose callback, and nothing else  *)
(* has closed it                                                           *)
C5_Witness ==
    /\ hasOnClose /\ lifecycle = "attached" /\ ~isOpen
    /\ timeoutIds > 0 /\ onCloseCalls = <<>>

(* C6: with an onClose callback supplied, each dismissal that passes its   *)
(* guard (Escape with closeable and not defaultPrevented, backdrop click   *)
(* with closeable, close-button click) makes exactly one onClose call,     *)
(* with the source of the affordance used; no key event makes more than    *)
(* one call, also after repeated opens.                                    *)
C6_OneOnClosePerDismissal ==
    [][/\ (KeyUp("Escape", FALSE) /\ closeable /\ hasOnClose) =>
              onCloseCalls' = Append(onCloseCalls, "escape")
       /\ (BackdropClick /\ closeable /\ hasOnClose) =>
              onCloseCalls' = Append(onCloseCalls, "backdrop")
       /\ (CloseClick /\ hasOnClose) =>
              onCloseCalls' = Append(onCloseCalls, "closeButton")
       /\ \A k \in Keys, d \in BOOLEAN :
              KeyUp(k, d) => Len(onCloseCalls') <= Len(onCloseCalls) + 1
      ]_vars

(* The close button dismissed the first open and Escape the second one     *)
C6_Witness ==
    /\ frameIds >= 2
    /\ onCloseCalls = <<"closeButton", "escape">>

(* A step in which open() ran, and one in which close() ran *)
OpenStep == frameIds' = frameIds + 1
CloseStep == timeoutIds' = timeoutIds + 1

(* C7 as stated: open captures the element focused before it (and holds no *)
(* memento at that point); the next close, whatever its source, focuses    *)
(* exactly that element and clears the memento; a close with no memento    *)
(* held changes no focus.                                                  *)
C7_CloseRestoresExactElement ==
    [][/\ OpenStep => (lastFocus = NoElement /\ lastFocus' = activeElement)
       /\ (CloseStep /\ lastFocus # NoElement) =>
              (activeElement' = lastFocus /\ lastFocus' = NoElement)
       /\ (CloseStep /\ lastFocus = NoElement) =>
              /\ activeElement' = afterCommit(activeElement, Rendered')
              /\ lastFocus' = NoElement
      ]_vars

(* C7 amended: as above, but the close focuses the captured element only   *)
(* when that element has a focus method; otherwise it leaves focus where   *)
(* it is. The memento is cleared in both cases.                            *)
C7_CloseRestoresFocusableElement ==
    [][/\ OpenStep => (lastFocus = NoElement /\ lastFocus' = activeElement)
       /\ (CloseStep /\ lastFocus # NoElement) =>
              /\ activeElement' =
                     IF hasFocusMethod(lastFocus)
                     THEN lastFocus
                     ELSE afterCommit(activeElement, Rendered')
              /\ lastFocus' = NoElement
       /\ (CloseStep /\ lastFocus = NoElement) =>
              /\ activeElement' = afterCommit(activeElement, Rendered')
              /\ lastFocus' = NoElement
      ]_vars

(* One open moved focus to the dialog, a close gave it back to the trigger *)
(* and a second close followed                                             *)
C7_Witness ==
    /\ autofocus /\ frameIds = 1 /\ timeoutIds >= 2
    /\ lastFocus = NoElement /\ activeElement = "trigger"

(* C8: with closeable false, an Escape key press and a backdrop click each *)
(* leave the whole state of the component unchanged.                       *)
C8_NotCloseableIsNoOp ==
    [][~closeable =>
          (((\E d \in BOOLEAN : KeyUp("Escape", d)) \/ BackdropClick)
               => UNCHANGED vars)]_vars

(* A visible, open, not closeable modal with its listener attached and a   *)
(* memento held                                                            *)
C8_Witness ==
    /\ ~closeable /\ lifecycle = "attached" /\ isOpen /\ isVisible
    /\ listeners > 0 /\ lastFocus # NoElement

(* C9: a key event whose key is not Escape, or that is defaultPrevented,   *)
(* changes nothing, whatever closeable is.                                 *)
C9_OtherKeyOrPreventedIsNoOp ==
    [][\A k \in Keys, d \in BOOLEAN :
          (KeyUp(k, d) /\ (k # "Escape" \/ d)) => UNCHANGED vars]_vars

(* A visible, open, closeable modal with its listener attached *)
C9_Witness ==
    /\ closeable /\ lifecycle = "attached" /\ isOpen /\ isVisible
    /\ listeners > 0 /\ lastFocus # NoElement /\ hasOnClose

(* C10: when the host sets isOpen from true to false while the dialog is   *)
(* visible, the dialog stays visible and the hide timer this close         *)
(* schedules is the first hide timer due (timers of equal delay fire in    *)
(* the order they were scheduled), so isVisible stays true until the       *)
(* 500-unit timer of this close fires.                                     *)
C10_VisibleUntilOwnHideTimer ==
    [][(HostSetIsOpen(FALSE) /\ isVisible) =>
          /\ isVisible'
          /\ animateOutTimer' \in pendingTimeouts'
          /\ \A u \in pendingTimeouts' : animateOutTimer' <= u]_vars

(* C11: once the render output of a mounted modal is empty (isOpen and     *)
(* isVisible both false), it becomes non-empty again only by isOpen being  *)
(* set to true.                                                            *)
C11_EmptyUntilIsOpen ==
    [][(lifecycle = "attached" /\ mounted /\ ~Rendered /\ Rendered')
          => isOpen']_vars

(* C12: the document holds at most one registration of the key listener;   *)
(* it is registered only while the component is attached and mounted with  *)
(* isOpen true; every close (user dismissal or host-driven) and the        *)
(* unmount leave it removed, so no key event reaches the component during  *)
(* the exit animation or after unmount.                                    *)
C12_ListenerAddOnOpenRemoveOnClose ==
    /\ [](/\ listeners <= 1
          /\ listeners > 0 => (lifecycle = "attached" /\ mounted /\ isOpen))
    /\ [][(CloseStep \/ ComponentWillUnmount) => listeners' = 0]_vars

(* The exit animation of a second open: the dialog is still visible and    *)
(* the listener is gone                                                    *)
C12_Witness ==
    /\ lifecycle = "attached" /\ frameIds >= 2
    /\ ~isOpen /\ isVisible /\ listeners = 0

(* C13: open() runs exactly once on each change of isOpen from false to    *)
(* true and exactly once when the component mounts with isOpen true, and   *)
(* at no other step; it does not run when the component mounts with        *)
(* isOpen false; close() runs exactly once on each change of isOpen from   *)
(* true to false.                                                          *)
C13_OneTransitionPerToggle ==
    [][/\ (~isOpen /\ isOpen') => (OpenStep /\ ~CloseStep)
       /\ (ComponentDidMount /\ isOpen) => (OpenStep /\ ~CloseStep)
       /\ (ComponentDidMount /\ ~isOpen) => (~OpenStep /\ ~CloseStep)
       /\ (isOpen /\ ~isOpen') => (CloseStep /\ ~OpenStep)
       /\ OpenStep => \/ ~isOpen /\ isOpen'
                      \/ isOpen /\ ~mounted /\ mounted'
       /\ frameIds' \in {frameIds, frameIds + 1}
       /\ timeoutIds' \in {timeoutIds, timeoutIds + 1}
      ]_vars

(* Two opens and the host-driven close between them, and no user dismissal *)
C13_Witness ==
    /\ lifecycle = "attached" /\ isOpen /\ isVisible /\ hasOnClose
    /\ frameIds = 2 /\ timeoutIds = 1 /\ onCloseCalls = <<>>

C15_HandlesNameEveryPendingCallback ==
    /\ Cardinality(pendingTimeouts) <= 1
    /\ Cardinality(pendingFrames) <= 1
    /\ clearTimeouts(animateOutTimer, pendingTimeouts) = {}
    /\ clearFrames(animateStartTimer, pendingFrames) = {}

(* C16: in every state of a mounted, attached component with no frame      *)
(* callback and no hide timer pending, isVisible equals isOpen.            *)
C16_SettlesVisibleIffOpen ==
    (lifecycle = "attached" /\ mounted
        /\ pendingFrames = {} /\ pendingTimeouts = {})
    => (isVisible = isOpen)

(* C17: while isOpen is false, no step calls onClose and no step schedules *)
(* a further hide timer (in particular no backdrop or close-button click   *)
(* during the exit animation does).                                        *)
C17_NoCloseWhileClosed ==
    [][(lifecycle = "attached" /\ ~isOpen) =>
          (onCloseCalls' = onCloseCalls /\ timeoutIds' = timeoutIds)]_vars

(* C18: getRef('Root') and getRef('Dialog') are distinct references, with  *)
(* or without a reference in the Dialog override, so every open() resets   *)
(* the scroll of the Root element and, with autofocus, focuses the Dialog  *)
(* element.                                                                *)
C18_RootAndDialogRefsDistinct ==
    [][OpenStep =>
          /\ getRef("Root") # getRef("Dialog")
          /\ scrollReset' = "root"
          /\ autofocus => activeElement' = "dialog"]_vars

====
